---------------------------- MODULE Spec2Model ----------------------------
(***************************************************************************)
(* Model of rf-timing-analyzer.py (timeline_mapper): width normalisation,  *)
(* acoustic peak de-duplication, audio/wifi alignment, timeline fusion,    *)
(* the 3-step motif matcher, the frequent-triplet miner and main().        *)
(*                                                                         *)
(* Strings are sequences of one-character strings.  Timestamps are Python  *)
(* floats: they are modelled as integers on a grid, and every float        *)
(* addition or subtraction rounds its exact result to MantBits significant *)
(* bits (round to nearest, ties to even), as IEEE-754 does with 53 bits.   *)
(***************************************************************************)
EXTENDS Integers, Sequences, FiniteSets, TLC

VARIABLES
    pc,               \* position of the operation under analysis
    width_field,      \* _width_from_ws: argument
    width,            \* _width_from_ws: returned value
    label,            \* find_motif.match: argument
    token,            \* find_motif.match: argument
    matched,          \* find_motif.match: returned value
    band_energy,      \* load_audio_events: per-frame level (dB)
    peak_thresh_db,   \* load_audio_events: argument
    min_separation_s, \* load_audio_events: argument
    events,           \* find_motif / mine_top_triplets: argument
    motif,            \* find_motif: argument (list of tokens)
    gap_s,            \* find_motif: argument
    hits,             \* find_motif: returned list
    window_s,         \* mine_top_triplets: argument
    top_k,            \* mine_top_triplets: argument
    top,              \* mine_top_triplets: returned list
    wifi,             \* main: wifi events
    audio,            \* main: audio events (result of load_audio_events)
    args,             \* main: parsed command line
    aligned_audio,    \* main: audio events after alignment
    all_events,       \* main: fused timeline
    out_file,         \* main: rows written to the timeline CSV
    stdout,           \* main: messages printed, in order
    calls             \* main: functions invoked so far, in order

vars == <<pc, width_field, width, label, token, matched, band_energy,
          peak_thresh_db, min_separation_s, events, motif, gap_s, hits,
          window_s, top_k, top, wifi, audio, args, aligned_audio,
          all_events, out_file, stdout, calls>>

(***************************************************************************)
(* Bounds of the model.                                                    *)
(***************************************************************************)
MantBits == 3        \* significant bits of the modelled float format
MaxWidthLen == 3     \* longest channel-width text
MaxWidthInt == 7     \* largest small numeric channel-width cell
MaxFrames == 4       \* STFT frames of the recording
MaxLevel == 2        \* largest per-frame band level
MaxSep == 3          \* largest ordinary --ultra-min-sep
MaxEvents == 4       \* longest event list handed to the matcher
MaxMineEvents == 4   \* longest event list handed to the miner
MaxTopK == 3         \* largest top_k
MaxFused == 3        \* wifi + audio events in a run of main

(***************************************************************************)
(* Python values.                                                          *)
(***************************************************************************)
None == [some |-> FALSE, val |-> <<>>]
Some(v) == [some |-> TRUE, val |-> v]

Idle == "idle"       \* value of a variable the running operation does not use
Unset == <<>>        \* value of a list of main before main assigns it

Max(a, b) == IF a >= b THEN a ELSE b

(***************************************************************************)
(* Float arithmetic.                                                       *)
(***************************************************************************)
RECURSIVE Pow2(_)
Pow2(n) == IF n = 0 THEN 1 ELSE 2 * Pow2(n - 1)

\* Smallest e with m \div 2^e < 2^MantBits.
RECURSIVE ExpOf(_, _)
ExpOf(m, e) == IF m \div Pow2(e) < Pow2(MantBits) THEN e ELSE ExpOf(m, e + 1)

RoundMag(m) ==
    LET e == ExpOf(m, 0)
        q == m \div Pow2(e)
        r == m % Pow2(e)
    IN  IF e = 0 THEN m
        ELSE IF 2 * r < Pow2(e) THEN q * Pow2(e)
        ELSE IF 2 * r > Pow2(e) THEN (q + 1) * Pow2(e)
        ELSE IF q % 2 = 0 THEN q * Pow2(e)
        ELSE (q + 1) * Pow2(e)

RoundF(x) == IF x < 0 THEN 0 - RoundMag(0 - x) ELSE RoundMag(x)

FAdd(a, b) == RoundF(a + b)

FSub(a, b) == RoundF(a - b)

(***************************************************************************)
(* Strings.                                                                *)
(***************************************************************************)
UpperChars == <<"A","B","C","D","E","F","G","H","I","J","K","L","M",
                "N","O","P","Q","R","S","T","U","V","W","X","Y","Z">>
LowerChars == <<"a","b","c","d","e","f","g","h","i","j","k","l","m",
                "n","o","p","q","r","s","t","u","v","w","x","y","z">>

LowerChar(c) ==
    IF \E i \in 1..Len(UpperChars) : UpperChars[i] = c
    THEN LowerChars[CHOOSE i \in 1..Len(UpperChars) : UpperChars[i] = c]
    ELSE c

lower(s) == [i \in 1..Len(s) |-> LowerChar(s[i])]

startswith(s, p) == Len(s) >= Len(p) /\ SubSeq(s, 1, Len(p)) = p

contains(p, s) ==
    \E i \in 1..(Len(s) - Len(p) + 1) : SubSeq(s, i, i + Len(p) - 1) = p

Digits == <<"0","1","2","3","4","5","6","7","8","9">>

IsDigit(c) == \E i \in 1..10 : Digits[i] = c

DigitVal(c) == (CHOOSE i \in 1..10 : Digits[i] = c) - 1

IsSpace(c) == c = " "

\* str.strip(): drop leading and trailing whitespace
RECURSIVE lstrip(_)
lstrip(s) == IF s # <<>> /\ IsSpace(Head(s)) THEN lstrip(Tail(s)) ELSE s

RECURSIVE rstrip(_)
rstrip(s) ==
    IF s # <<>> /\ IsSpace(s[Len(s)]) THEN rstrip(SubSeq(s, 1, Len(s) - 1)) ELSE s

strip(s) == rstrip(lstrip(s))

\* decimal text of a non-negative integer, as str() renders it
RECURSIVE StrNat(_)
StrNat(n) == IF n < 10 THEN <<Digits[n + 1]>>
             ELSE StrNat(n \div 10) \o <<Digits[(n % 10) + 1]>>

S_ultra19 == <<"u","l","t","r","a","1","9">>
S_ultra_ == <<"u","l","t","r","a","_">>
S_wifi5 == <<"w","i","f","i","5">>
S_wifi6 == <<"w","i","f","i","6">>
S_wifi2 == <<"w","i","f","i","2">>
S_20 == <<"2","0">>
S__20 == <<"_","2","0">>
S_wifi_beacon_ == <<"w","i","f","i","_","b","e","a","c","o","n","_">>
S_5g == <<"5","g">>
S_6g == <<"6","g">>
S_2g4 == <<"2","g","4">>
S_ultra_18_21khz == <<"u","l","t","r","a","_","1","8","_","2","1","k","h","z">>

\* f"wifi_beacon_{band}_{width}"
WifiLabel(band, w) == S_wifi_beacon_ \o band \o <<"_">> \o w


(***************************************************************************)
(* _width_from_ws (lines 78-94).  The argument is a cell of the            *)
(* wlan_radio.channel_width column: absent, a text, or a number.           *)
(***************************************************************************)
NoneCell == [kind |-> "none", s |-> <<>>, n |-> 0]
StrCell(s) == [kind |-> "str", s |-> s, n |-> 0]
IntCell(n) == [kind |-> "int", s |-> <<>>, n |-> n]

\* str(width_field)
PyStr(x) == IF x.kind = "int" THEN StrNat(x.n) ELSE x.s

RECURSIVE DecVal(_)
DecVal(s) == IF s = <<>> THEN 0
             ELSE 10 * DecVal(SubSeq(s, 1, Len(s) - 1)) + DigitVal(s[Len(s)])

\* int(width_field): [ok |-> FALSE] stands for the ValueError
PyInt(x) ==
    IF x.kind = "int" THEN [ok |-> TRUE, val |-> x.n]
    ELSE LET t == strip(x.s)
             signed == t # <<>> /\ Head(t) \in {"+", "-"}
             body == IF signed THEN Tail(t) ELSE t
             allDigits == body # <<>> /\ \A i \in 1..Len(body) : IsDigit(body[i])
         IN  IF allDigits
             THEN [ok |-> TRUE,
                   val |-> IF signed /\ Head(t) = "-" THEN 0 - DecVal(body)
                           ELSE DecVal(body)]
             ELSE [ok |-> FALSE, val |-> 0]

\* mapping.get(i)
WidthMapping(i) ==
    CASE i = 0 -> Some(<<"2","0">>)
      [] i = 1 -> Some(<<"4","0">>)
      [] i = 2 -> Some(<<"8","0">>)
      [] i = 3 -> Some(<<"1","6","0">>)
      [] i = 4 -> Some(<<"8","0">>)
      [] i = 5 -> Some(<<"5">>)
      [] i = 6 -> Some(<<"1","0">>)
      [] OTHER -> None

\* length of the run of digits that starts at s[i]
RECURSIVE RunLen(_, _)
RunLen(s, i) == IF i <= Len(s) /\ IsDigit(s[i]) THEN 1 + RunLen(s, i + 1) ELSE 0

\* re.search(r'(\d+)', s): the leftmost, longest run of digits
FirstDigitRun(s) ==
    IF \E i \in 1..Len(s) : IsDigit(s[i])
    THEN LET i == CHOOSE i \in 1..Len(s) :
                     IsDigit(s[i]) /\ \A j \in 1..(i - 1) : ~IsDigit(s[j])
         IN  Some(SubSeq(s, i, i + RunLen(s, i) - 1))
    ELSE None

width_from_ws(x) ==
    IF x.kind = "none" \/ (x.kind = "str" /\ x.s = <<>>) THEN None
    ELSE LET i == PyInt(x)
         IN  IF i.ok THEN WidthMapping(i.val)
             ELSE FirstDigitRun(PyStr(x))

WidthChars == {"0", "4", "8", "M", " ", "-"}

RECURSIVE StringsUpTo(_, _)
StringsUpTo(chars, n) ==
    IF n = 0 THEN {<<>>}
    ELSE LET shorter == StringsUpTo(chars, n - 1)
         IN  shorter \cup {Append(s, c) : s \in shorter, c \in chars}

WidthInputs ==
    {NoneCell}
    \cup {StrCell(s) : s \in StringsUpTo(WidthChars, MaxWidthLen)}
    \cup {IntCell(n) : n \in (0..MaxWidthInt) \cup {20, 40, 160}}

(***************************************************************************)
(* find_motif.match (lines 288-298).                                       *)
(***************************************************************************)
\* variant: the wifi6 rule without the bandwidth check
match_NoWidthCheckFor6(lbl, tok) ==
    LET t == lower(tok)
    IN  IF t = S_ultra19 THEN startswith(lbl, S_ultra_)
        ELSE IF startswith(t, S_wifi5)
        THEN startswith(lbl, S_wifi_beacon_ \o S_5g \o <<"_">>)
             /\ (IF contains(S_20, t) THEN contains(S__20, lbl) ELSE TRUE)
        ELSE IF startswith(t, S_wifi6)
        THEN startswith(lbl, S_wifi_beacon_ \o S_6g \o <<"_">>)
        ELSE IF startswith(t, S_wifi2)
        THEN startswith(lbl, S_wifi_beacon_ \o S_2g4 \o <<"_">>)
        ELSE lbl = t

match(lbl, tok) ==
    LET t == lower(tok)
    IN  IF t = S_ultra19 THEN startswith(lbl, S_ultra_)
        ELSE IF startswith(t, S_wifi5)
        THEN startswith(lbl, S_wifi_beacon_ \o S_5g \o <<"_">>)
             /\ (IF contains(S_20, t) THEN contains(S__20, lbl) ELSE TRUE)
        ELSE IF startswith(t, S_wifi6)
        THEN startswith(lbl, S_wifi_beacon_ \o S_6g \o <<"_">>)
             /\ (IF contains(S_20, t) THEN contains(S__20, lbl) ELSE TRUE)
        ELSE IF startswith(t, S_wifi2)
        THEN startswith(lbl, S_wifi_beacon_ \o S_2g4 \o <<"_">>)
        ELSE lbl = t

\* Labels load_wifi_events and load_audio_events can build.
Bands == {S_5g, S_6g, S_2g4}
Widths == {<<"2","0">>, <<"4","0">>, <<"8","0">>, <<"1","6","0">>, <<"5">>,
           <<"1","0">>, <<"1","2","0">>, <<"2","0","0">>}
Labels == {WifiLabel(b, w) : b \in Bands, w \in Widths} \cup {S_ultra_18_21khz}

\* Motif tokens a caller can pass with --motif.
Tokens ==
    { S_ultra19,
      <<"U","L","T","R","A","1","9">>,
      <<"u","l","t","r","a","1","9","x">>,
      <<"u","l","t","r","a">>,
      S_wifi5,
      S_wifi5 \o <<"_","2","0">>,
      S_wifi5 \o <<"_","4","0">>,
      <<"W","i","F","i","5","_","2","0">>,
      S_wifi6,
      S_wifi6 \o <<"_","2","0">>,
      S_wifi6 \o <<"_","1","2","0">>,
      <<"W","I","F","I","6">>,
      S_wifi2,
      S_wifi2 \o <<"_","2","0">>,
      <<"w","i","f","i">>,
      S_ultra_18_21khz,
      <<"U","l","t","r","a","_","1","8","_","2","1","k","H","z">>,
      WifiLabel(S_5g, <<"2","0">>),
      WifiLabel(S_2g4, <<"4","0">>),
      <<>> }

(***************************************************************************)
(* Event (lines 58-63).  meta is abstracted to the index of the capture    *)
(* row or STFT frame the event was built from.                             *)
(***************************************************************************)
Event(ts, source, lbl, meta) ==
    [ts |-> ts, source |-> source, label |-> lbl, meta |-> meta]

\* variant: an insertion that puts an event before those of equal timestamp
RECURSIVE InsertByTs_BeforeEqual(_, _)
InsertByTs_BeforeEqual(s, e) ==
    IF s = <<>> THEN <<e>>
    ELSE IF Head(s).ts < e.ts THEN <<Head(s)>> \o InsertByTs_BeforeEqual(Tail(s), e)
    ELSE <<e>> \o s

\* sorted(events, key=lambda e: e.ts): Python's sort is stable
RECURSIVE InsertByTs(_, _)
InsertByTs(s, e) ==
    IF s = <<>> THEN <<e>>
    ELSE IF Head(s).ts <= e.ts THEN <<Head(s)>> \o InsertByTs(Tail(s), e)
    ELSE <<e>> \o s

RECURSIVE sorted_by_ts(_)
sorted_by_ts(s) ==
    IF s = <<>> THEN <<>>
    ELSE InsertByTs(sorted_by_ts(SubSeq(s, 1, Len(s) - 1)), s[Len(s)])

(***************************************************************************)
(* find_motif (lines 300-317).                                             *)
(***************************************************************************)
\* variant: the third step is measured from the anchor, not from step two
RECURSIVE MotifScanK_GapFromAnchor(_, _, _, _, _, _, _)
MotifScanK_GapFromAnchor(ev, a, b, k, m, gap, acc) ==
    IF k <= Len(ev) /\ FSub(ev[k].ts, a.ts) <= gap
    THEN MotifScanK_GapFromAnchor(ev, a, b, k + 1, m, gap,
                                  IF match(ev[k].label, m[3])
                                  THEN Append(acc, <<a, b, ev[k]>>) ELSE acc)
    ELSE acc

\* lines 312-315: the while loop over k
RECURSIVE MotifScanK(_, _, _, _, _, _, _)
MotifScanK(ev, a, b, k, m, gap, acc) ==
    IF k <= Len(ev) /\ FSub(ev[k].ts, b.ts) <= gap
    THEN MotifScanK(ev, a, b, k + 1, m, gap,
                    IF match(ev[k].label, m[3])
                    THEN Append(acc, <<a, b, ev[k]>>) ELSE acc)
    ELSE acc

\* lines 307-316: the while loop over j
RECURSIVE MotifScanJ(_, _, _, _, _, _)
MotifScanJ(ev, a, j, m, gap, acc) ==
    IF j <= Len(ev) /\ FSub(ev[j].ts, a.ts) <= gap
    THEN MotifScanJ(ev, a, j + 1, m, gap,
                    IF match(ev[j].label, m[2])
                    THEN MotifScanK(ev, a, ev[j], j + 1, m, gap, acc) ELSE acc)
    ELSE acc

\* lines 302-316: the for loop over the anchors
RECURSIVE MotifScanI(_, _, _, _, _)
MotifScanI(ev, i, m, gap, acc) ==
    IF i > Len(ev) THEN acc
    ELSE MotifScanI(ev, i + 1, m, gap,
                    IF match(ev[i].label, m[1])
                    THEN MotifScanJ(ev, ev[i], i + 1, m, gap, acc) ELSE acc)

find_motif(evs, m, gap) == MotifScanI(sorted_by_ts(evs), 1, m, gap, <<>>)

(***************************************************************************)
(* mine_top_triplets (lines 320-333).  counts is a dict: its items are     *)
(* kept in insertion order.                                                *)
(***************************************************************************)
\* line 331: counts[trip] = counts.get(trip, 0) + 1
CountsIncr(counts, trip) ==
    IF \E n \in 1..Len(counts) : counts[n].trip = trip
    THEN [n \in 1..Len(counts) |->
             IF counts[n].trip = trip
             THEN [trip |-> trip, cnt |-> counts[n].cnt + 1]
             ELSE counts[n]]
    ELSE Append(counts, [trip |-> trip, cnt |-> 1])

\* variant: the k loop stops at an event exactly window_s after ev[i]
RECURSIVE MineScanK_StrictWindow(_, _, _, _, _, _)
MineScanK_StrictWindow(ev, i, j, k, w, counts) ==
    IF k > Len(ev) THEN counts
    ELSE IF FSub(ev[k].ts, ev[i].ts) >= w THEN counts
    ELSE MineScanK_StrictWindow(ev, i, j, k + 1, w,
             CountsIncr(counts, <<ev[i].label, ev[j].label, ev[k].label>>))

\* lines 327-331
RECURSIVE MineScanK(_, _, _, _, _, _)
MineScanK(ev, i, j, k, w, counts) ==
    IF k > Len(ev) THEN counts
    ELSE IF FSub(ev[k].ts, ev[i].ts) > w THEN counts
    ELSE MineScanK(ev, i, j, k + 1, w,
                   CountsIncr(counts, <<ev[i].label, ev[j].label, ev[k].label>>))

\* lines 324-331
RECURSIVE MineScanJ(_, _, _, _, _)
MineScanJ(ev, i, j, w, counts) ==
    IF j > Len(ev) THEN counts
    ELSE IF FSub(ev[j].ts, ev[i].ts) > w THEN counts
    ELSE MineScanJ(ev, i, j + 1, w, MineScanK(ev, i, j, j + 1, w, counts))

\* lines 323-331
RECURSIVE MineScanI(_, _, _, _)
MineScanI(ev, i, w, counts) ==
    IF i > Len(ev) THEN counts
    ELSE MineScanI(ev, i + 1, w, MineScanJ(ev, i, i + 1, w, counts))

mine_counts(evs, w) == MineScanI(sorted_by_ts(evs), 1, w, <<>>)

\* variant: a descending sort that reverses items of equal count
RECURSIVE InsertByCountDesc_Unstable(_, _)
InsertByCountDesc_Unstable(s, e) ==
    IF s = <<>> THEN <<e>>
    ELSE IF Head(s).cnt > e.cnt
    THEN <<Head(s)>> \o InsertByCountDesc_Unstable(Tail(s), e)
    ELSE <<e>> \o s

\* sorted(counts.items(), key=lambda x: x[1], reverse=True): stable, so
\* items with equal counts stay in insertion order
RECURSIVE InsertByCountDesc(_, _)
InsertByCountDesc(s, e) ==
    IF s = <<>> THEN <<e>>
    ELSE IF Head(s).cnt >= e.cnt THEN <<Head(s)>> \o InsertByCountDesc(Tail(s), e)
    ELSE <<e>> \o s

RECURSIVE sorted_by_count_desc(_)
sorted_by_count_desc(s) ==
    IF s = <<>> THEN <<>>
    ELSE InsertByCountDesc(sorted_by_count_desc(SubSeq(s, 1, Len(s) - 1)), s[Len(s)])

\* s[:k]
SliceTo(s, k) ==
    IF k >= 0 THEN SubSeq(s, 1, IF k < Len(s) THEN k ELSE Len(s))
    ELSE SubSeq(s, 1, Max(Len(s) + k, 0))

mine_top_triplets(evs, w, k) == SliceTo(sorted_by_count_desc(mine_counts(evs, w)), k)

(***************************************************************************)
(* load_audio_events (lines 241-258): threshold and de-duplication.        *)
(* band_energy[i] is the level of STFT frame i; frame i starts at time     *)
(* i - 1 (one hop per time unit).                                          *)
(***************************************************************************)
RECURSIVE InsertAsc(_, _)
InsertAsc(s, x) ==
    IF s = <<>> THEN <<x>>
    ELSE IF Head(s) <= x THEN <<Head(s)>> \o InsertAsc(Tail(s), x)
    ELSE <<x>> \o s

RECURSIVE SortAsc(_)
SortAsc(s) == IF s = <<>> THEN <<>> ELSE InsertAsc(SortAsc(Tail(s)), Head(s))

\* 2 * np.median(levels): the mean of the two middle values when the
\* number of frames is even
Median2(levels) ==
    LET s == SortAsc(levels)
        n == Len(s)
    IN  IF n % 2 = 1 THEN 2 * s[(n + 1) \div 2]
        ELSE s[n \div 2] + s[(n \div 2) + 1]

\* line 243: np.where(band_energy > med + peak_thresh_db)[0], ascending
RECURSIVE PeaksFrom(_, _, _)
PeaksFrom(levels, thresh, i) ==
    IF i > Len(levels) THEN <<>>
    ELSE IF 2 * levels[i] > Median2(levels) + 2 * thresh
    THEN <<i>> \o PeaksFrom(levels, thresh, i + 1)
    ELSE PeaksFrom(levels, thresh, i + 1)

Peaks(levels, thresh) == PeaksFrom(levels, thresh, 1)

\* t[idx]
FrameTime(idx) == idx - 1

\* line 247: last_t = -1e9
LastInit == -1000000000

\* lines 248-257
RECURSIVE DedupWalk(_, _, _, _, _, _)
DedupWalk(levels, peaks, n, last_t, min_sep, acc) ==
    IF n > Len(peaks) THEN acc
    ELSE LET ts == FrameTime(peaks[n])
         IN  IF FSub(ts, last_t) >= min_sep
             THEN DedupWalk(levels, peaks, n + 1, ts, min_sep,
                            Append(acc, Event(ts, "audio", S_ultra_18_21khz,
                                              levels[peaks[n]])))
             ELSE DedupWalk(levels, peaks, n + 1, last_t, min_sep, acc)

load_audio_events(levels, thresh, min_sep) ==
    DedupWalk(levels, Peaks(levels, thresh), 1, LastInit, min_sep, <<>>)

(***************************************************************************)
(* align_audio_to_wifi (lines 261-275) and the explicit offset (line 370). *)
(***************************************************************************)
\* min(e.ts for e in evs)
MinTs(evs) ==
    CHOOSE t \in {evs[i].ts : i \in 1..Len(evs)} :
        \A j \in 1..Len(evs) : t <= evs[j].ts

\* Event(ts=e.ts + offset, source=e.source, label=e.label, meta=...)
Retimed(evs, offset) ==
    [i \in 1..Len(evs) |->
        Event(FAdd(evs[i].ts, offset), evs[i].source, evs[i].label, evs[i].meta)]

\* variant: the offset taken from the first event of each list
EstimatedOffset_FirstEvents(audio_events, wifi_events) ==
    FSub(wifi_events[1].ts, audio_events[1].ts)

\* line 271: offset = wifi_t0 - audio_t0
EstimatedOffset(audio_events, wifi_events) ==
    FSub(MinTs(wifi_events), MinTs(audio_events))

align_audio_to_wifi(audio_events, wifi_events) ==
    IF audio_events = <<>> \/ wifi_events = <<>> THEN audio_events
    ELSE Retimed(audio_events, EstimatedOffset(audio_events, wifi_events))

\* variant: the acoustic events concatenated ahead of the wifi events
Fused_AudioFirst(wifi_events, aligned) == sorted_by_ts(aligned \o wifi_events)

\* line 374: sorted(wifi + aligned_audio, key=lambda e: e.ts)
Fused(wifi_events, aligned) == sorted_by_ts(wifi_events \o aligned)

(***************************************************************************)
(* main (lines 369-407): helpers.                                          *)
(***************************************************************************)
\* str.split(sep)
RECURSIVE split(_, _)
split(s, sep) ==
    IF \E i \in 1..Len(s) : s[i] = sep
    THEN LET i == CHOOSE i \in 1..Len(s) :
                     s[i] = sep /\ \A j \in 1..(i - 1) : s[j] # sep
         IN  <<SubSeq(s, 1, i - 1)>> \o split(SubSeq(s, i + 1, Len(s)), sep)
    ELSE <<s>>

\* line 386: [t.strip() for t in args.motif.split(',')]
motif_tokens(m) ==
    LET parts == split(m, ",")
    IN  [i \in 1..Len(parts) |-> strip(parts[i])]

\* variant: a motif of more than 3 tokens passes the check
MotifWellFormed_AtLeast3(tokens) == Len(tokens) >= 3

\* line 387: len(motif_tokens) != 3 is the misconfiguration
MotifWellFormed(tokens) == Len(tokens) = 3

\* line 401: if args.mine_top > 0
MiningRequested(mine_top) == mine_top > 0

\* line 402: window_s=3.0
MainWindow == 3

\* lines 377-381: one row per event after the header row
TimelineRows(evs) ==
    <<<<"ts_epoch", "source", "label", "meta">>>> \o [i \in 1..Len(evs) |->
            <<evs[i].ts, evs[i].source, evs[i].label, evs[i].meta>>]

(***************************************************************************)
(* Inputs.                                                                 *)
(***************************************************************************)
SourceOf(lbl) == IF startswith(lbl, S_ultra_) THEN "audio" ELSE "wifi"

L_wifi5_20 == WifiLabel(S_5g, <<"2","0">>)
L_wifi6_20 == WifiLabel(S_6g, <<"2","0">>)

\* every list of n events with timestamps in tss and labels in lbls; the
\* i-th event carries meta i
EventLists(n, tss, lbls) ==
    {[i \in 1..n |-> Event(f[i][1], SourceOf(f[i][2]), f[i][2], i)] :
        f \in [1..n -> tss \X lbls]}

EventListsUpTo(n, tss, lbls) == UNION {EventLists(m, tss, lbls) : m \in 0..n}

\* every strictly increasing list of n timestamps drawn from tss
IncreasingLists(n, tss) ==
    {f \in [1..n -> tss] : \A i \in 1..(n - 1) : f[i] < f[i + 1]}

\* matcher inputs: the unit is half a second (0.0 s, 1.0 s, 2.5 s)
MotifTs == {0, 2, 5}
MotifLabels == {L_wifi5_20, S_ultra_18_21khz}
MotifGaps == {2, 4}
Motifs == {<<S_wifi5 \o <<"_","2","0">>, S_ultra19, S_wifi5>>,
           <<S_ultra19, S_ultra19, S_ultra19>>}

\* the motif of the usage text, and a timeline that holds it once
DefaultMotif == <<S_wifi5 \o <<"_","2","0">>, S_ultra19, S_wifi6 \o <<"_","2","0">>>>
ExampleEvents == <<Event(0, "wifi", L_wifi5_20, 1),
                   Event(2, "audio", S_ultra_18_21khz, 2),
                   Event(5, "wifi", L_wifi6_20, 3)>>

\* miner inputs
MineTs == {0, 2}
MineLabels == {L_wifi5_20, S_ultra_18_21khz}
MineWindows == {1, 2}

\* detector inputs: HugeSep is a separation longer than the distance from
\* the start value of last_t to any frame time
HugeSep == Pow2(30)
SepVals == (0..MaxSep) \cup {HugeSep}
ThreshVals == {0, 1}

\* inputs of main: timestamps where float rounding does and does not occur
MainTs == {0, 1, 2, 10, 12}
MainOffsets == {None, Some(3)}
MainMotifs ==
    { <<"w","i","f","i","5","_","2","0",",","u","l","t","r","a","1","9",",",
        "w","i","f","i","6","_","2","0">>,
      <<"w","i","f","i","5",","," ","u","l","t","r","a","1","9">>,
      <<"w","i","f","i","5",",","u","l","t","r","a","1","9",",",
        "w","i","f","i","6",",","w","i","f","i","2">>,
      <<>> }
MainGap == 2
MainMineTops == {0, 2}

\* wifi rows as load_wifi_events returns them, in file order: row i is a
\* 5 GHz beacon when i is odd and a 6 GHz beacon when i is even
WifiLists(n) ==
    {[i \in 1..n |-> Event(f[i], "wifi",
                           IF i % 2 = 1 THEN L_wifi5_20 ELSE L_wifi6_20, i)] :
        f \in [1..n -> MainTs]}

\* audio events as load_audio_events returns them: increasing in time
AudioLists(n) ==
    {[i \in 1..n |-> Event(f[i], "audio", S_ultra_18_21khz, MaxLevel)] :
        f \in IncreasingLists(n, MainTs)}

(***************************************************************************)
(* Initial states: one per operation under analysis.                       *)
(***************************************************************************)
WidthIdle == width_field = Idle /\ width = Idle
MatchIdle == label = Idle /\ token = Idle /\ matched = Idle
DetectIdle == band_energy = Idle /\ peak_thresh_db = Idle /\ min_separation_s = Idle
MotifIdle == motif = Idle /\ gap_s = Idle /\ hits = Idle
MineIdle == window_s = Idle /\ top_k = Idle /\ top = Idle
MainIdle ==
    /\ wifi = Idle /\ args = Idle /\ aligned_audio = Idle /\ all_events = Idle
    /\ out_file = Idle /\ stdout = Idle /\ calls = Idle

InitWidth ==
    /\ pc = "width_call"
    /\ width_field \in WidthInputs
    /\ width = Idle
    /\ MatchIdle /\ DetectIdle /\ events = Idle /\ MotifIdle /\ MineIdle
    /\ audio = Idle /\ MainIdle

InitMatch ==
    /\ pc = "match_call"
    /\ label \in Labels
    /\ token \in Tokens
    /\ matched = Idle
    /\ WidthIdle /\ DetectIdle /\ events = Idle /\ MotifIdle /\ MineIdle
    /\ audio = Idle /\ MainIdle

InitAudio ==
    /\ pc = "audio_call"
    /\ band_energy \in UNION {[1..n -> 0..MaxLevel] : n \in 1..MaxFrames}
    /\ peak_thresh_db \in ThreshVals
    /\ min_separation_s \in SepVals
    /\ audio = Idle
    /\ WidthIdle /\ MatchIdle /\ events = Idle /\ MotifIdle /\ MineIdle /\ MainIdle

InitMotif ==
    /\ pc = "motif_call"
    /\ \/ /\ events \in EventListsUpTo(MaxEvents, MotifTs, MotifLabels)
          /\ motif \in Motifs
       \/ /\ events = ExampleEvents
          /\ motif = DefaultMotif
    /\ gap_s \in MotifGaps
    /\ hits = Idle
    /\ WidthIdle /\ MatchIdle /\ DetectIdle /\ MineIdle /\ audio = Idle /\ MainIdle

InitMine ==
    /\ pc = "mine_call"
    /\ events \in EventListsUpTo(MaxMineEvents, MineTs, MineLabels)
    /\ window_s \in MineWindows
    /\ top_k \in 0..MaxTopK
    /\ top = Idle
    /\ WidthIdle /\ MatchIdle /\ DetectIdle /\ MotifIdle /\ audio = Idle /\ MainIdle

InitMain ==
    /\ pc = "align"
    /\ \E nw \in 0..MaxFused : \E na \in 0..(MaxFused - nw) :
          /\ wifi \in WifiLists(nw)
          /\ audio \in AudioLists(na)
    /\ args \in [audio_offset : MainOffsets, motif : MainMotifs,
                 gap : {MainGap}, mine_top : MainMineTops]
    /\ aligned_audio = Unset /\ all_events = Unset /\ out_file = Unset
    /\ stdout = <<>> /\ calls = <<>>
    /\ hits = Unset /\ top = Unset
    /\ motif = Idle /\ gap_s = Idle /\ window_s = Idle /\ top_k = Idle
    /\ events = Idle
    /\ WidthIdle /\ MatchIdle /\ DetectIdle

(***************************************************************************)
(* Actions.                                                                *)
(***************************************************************************)
\* a call of _width_from_ws
WidthFromWs ==
    /\ pc = "width_call"
    /\ width' = width_from_ws(width_field)
    /\ pc' = "width_done"
    /\ UNCHANGED <<width_field, label, token, matched, band_energy,
                   peak_thresh_db, min_separation_s, events, motif, gap_s, hits,
                   window_s, top_k, top, wifi, audio, args, aligned_audio,
                   all_events, out_file, stdout, calls>>

\* a call of find_motif.match
Match ==
    /\ pc = "match_call"
    /\ matched' = match(label, token)
    /\ pc' = "match_done"
    /\ UNCHANGED <<width_field, width, label, token, band_energy,
                   peak_thresh_db, min_separation_s, events, motif, gap_s, hits,
                   window_s, top_k, top, wifi, audio, args, aligned_audio,
                   all_events, out_file, stdout, calls>>

\* a call of load_audio_events, from the band levels on
LoadAudioEvents ==
    /\ pc = "audio_call"
    /\ audio' = load_audio_events(band_energy, peak_thresh_db, min_separation_s)
    /\ pc' = "audio_done"
    /\ UNCHANGED <<width_field, width, label, token, matched, band_energy,
                   peak_thresh_db, min_separation_s, events, motif, gap_s, hits,
                   window_s, top_k, top, wifi, args, aligned_audio,
                   all_events, out_file, stdout, calls>>

\* a call of find_motif
FindMotif ==
    /\ pc = "motif_call"
    /\ hits' = find_motif(events, motif, gap_s)
    /\ pc' = "motif_done"
    /\ UNCHANGED <<width_field, width, label, token, matched, band_energy,
                   peak_thresh_db, min_separation_s, events, motif, gap_s,
                   window_s, top_k, top, wifi, audio, args, aligned_audio,
                   all_events, out_file, stdout, calls>>

\* a call of mine_top_triplets
MineTopTriplets ==
    /\ pc = "mine_call"
    /\ top' = mine_top_triplets(events, window_s, top_k)
    /\ pc' = "mine_done"
    /\ UNCHANGED <<width_field, width, label, token, matched, band_energy,
                   peak_thresh_db, min_separation_s, events, motif, gap_s, hits,
                   window_s, top_k, wifi, audio, args, aligned_audio,
                   all_events, out_file, stdout, calls>>

FnVars == <<width_field, width, label, token, matched, band_energy,
            peak_thresh_db, min_separation_s, events, motif, gap_s,
            window_s, top_k>>

\* main, lines 369-372
MainAlign ==
    /\ pc = "align"
    /\ IF args.audio_offset # None
       THEN /\ aligned_audio' = Retimed(audio, args.audio_offset.val)
            /\ calls' = calls
       ELSE /\ aligned_audio' = align_audio_to_wifi(audio, wifi)
            /\ calls' = Append(calls, "align_audio_to_wifi")
    /\ pc' = "fuse"
    /\ UNCHANGED <<FnVars, hits, top, wifi, audio, args, all_events, out_file, stdout>>

\* main, line 374
MainFuse ==
    /\ pc = "fuse"
    /\ all_events' = Fused(wifi, aligned_audio)
    /\ pc' = "write"
    /\ UNCHANGED <<FnVars, hits, top, wifi, audio, args, aligned_audio, out_file,
                   stdout, calls>>

\* main, lines 377-383
MainWriteTimeline ==
    /\ pc = "write"
    /\ out_file' = TimelineRows(all_events)
    /\ stdout' = Append(stdout, "Saved fused timeline")
    /\ pc' = "motif"
    /\ UNCHANGED <<FnVars, hits, top, wifi, audio, args, aligned_audio, all_events,
                   calls>>

\* main, lines 386-398
MainMotifSearch ==
    /\ pc = "motif"
    /\ LET tokens == motif_tokens(args.motif)
       IN  IF ~MotifWellFormed(tokens)
           THEN /\ stdout' = Append(stdout, "Motif must be 3 tokens. Skipping.")
                /\ UNCHANGED <<hits, calls>>
           ELSE /\ hits' = find_motif(all_events, tokens, args.gap)
                /\ calls' = Append(calls, "find_motif")
                /\ stdout' = Append(stdout, "Detected motif")
    /\ pc' = "mine"
    /\ UNCHANGED <<FnVars, top, wifi, audio, args, aligned_audio, all_events, out_file>>

\* main, lines 401-405
MainMine ==
    /\ pc = "mine"
    /\ IF MiningRequested(args.mine_top)
       THEN /\ top' = mine_top_triplets(all_events, MainWindow, args.mine_top)
            /\ calls' = Append(calls, "mine_top_triplets")
            /\ stdout' = Append(stdout, "Top triplets")
       ELSE UNCHANGED <<top, calls, stdout>>
    /\ pc' = "finish"
    /\ UNCHANGED <<FnVars, hits, wifi, audio, args, aligned_audio, all_events, out_file>>

\* main, line 407
MainDone ==
    /\ pc = "finish"
    /\ stdout' = Append(stdout, "Done.")
    /\ pc' = "done"
    /\ UNCHANGED <<FnVars, hits, top, wifi, audio, args, aligned_audio, all_events,
                   out_file, calls>>

NextWidth == WidthFromWs
NextMatch == Match
NextAudio == LoadAudioEvents
NextMotif == FindMotif
NextMine == MineTopTriplets
NextMain ==
    \/ MainAlign
    \/ MainFuse
    \/ MainWriteTimeline
    \/ MainMotifSearch
    \/ MainMine
    \/ MainDone

SpecWidth == InitWidth /\ [][NextWidth]_vars
SpecMatch == InitMatch /\ [][NextMatch]_vars
SpecAudio == InitAudio /\ [][NextAudio]_vars
SpecMotif == InitMotif /\ [][NextMotif]_vars
SpecMine == InitMine /\ [][NextMine]_vars
SpecMain == InitMain /\ [][NextMain]_vars

Init ==
    \/ InitWidth
    \/ InitMatch
    \/ InitAudio
    \/ InitMotif
    \/ InitMine
    \/ InitMain

Next ==
    \/ WidthFromWs
    \/ Match
    \/ LoadAudioEvents
    \/ FindMotif
    \/ MineTopTriplets
    \/ MainAlign
    \/ MainFuse
    \/ MainWriteTimeline
    \/ MainMotifSearch
    \/ MainMine
    \/ MainDone

Spec == Init /\ [][Next]_vars

(***************************************************************************)
(* Width normalisation.                                                    *)
(***************************************************************************)
\* The reading of the channel-width cell that the documentation describes:
\* an enumeration code 0..6 is looked up, anything else with digits in it
\* already shows the width in MHz.
DocumentedWidth(x) ==
    LET i == IF x.kind = "none" THEN [ok |-> FALSE, val |-> 0] ELSE PyInt(x)
    IN  IF i.ok /\ i.val \in 0..6 THEN WidthMapping(i.val)
        ELSE IF x.kind = "none" \/ (x.kind = "str" /\ x.s = <<>>) THEN None
        ELSE FirstDigitRun(PyStr(x))

\* C7: the codes 0..6 map to 20,40,80,160,80,5,10; every other non-empty
\* input (a number outside 0..6 such as 40 or "40", a text such as "40MHz")
\* yields its first run of digits; none only for an empty or absent input
\* or one without digits.
C7_WidthAsDocumented ==
    pc = "width_done" => width = DocumentedWidth(width_field)

(***************************************************************************)
(* Token matching.                                                         *)
(***************************************************************************)
\* the matching rule of the motif matcher applied to a token as given
RuleMatch(lbl, tok) ==
    IF tok = S_ultra19 THEN startswith(lbl, S_ultra_)
    ELSE IF startswith(tok, S_wifi5)
    THEN startswith(lbl, S_wifi_beacon_ \o S_5g \o <<"_">>)
         /\ (contains(S_20, tok) => contains(S__20, lbl))
    ELSE IF startswith(tok, S_wifi6)
    THEN startswith(lbl, S_wifi_beacon_ \o S_6g \o <<"_">>)
         /\ (contains(S_20, tok) => contains(S__20, lbl))
    ELSE IF startswith(tok, S_wifi2)
    THEN startswith(lbl, S_wifi_beacon_ \o S_2g4 \o <<"_">>)
    ELSE tok = lbl

RECURSIVE DescribedWalk(_, _, _, _, _)
DescribedWalk(times, n, have_last, last, min_sep) ==
    IF n > Len(times) THEN <<>>
    ELSE IF ~have_last \/ FSub(times[n], last) >= min_sep
    THEN <<times[n]>> \o DescribedWalk(times, n + 1, TRUE, times[n], min_sep)
    ELSE DescribedWalk(times, n + 1, have_last, last, min_sep)

CandidateTimes ==
    LET peaks == Peaks(band_energy, peak_thresh_db)
    IN  [n \in 1..Len(peaks) |-> FrameTime(peaks[n])]

AcceptedTimes == [n \in 1..Len(audio) |-> audio[n].ts]

\* C5: a candidate is accepted iff its time is at least min_separation_s
\* after the most recently accepted peak (the first candidate is always
\* accepted); consecutive accepted timestamps differ by at least
\* min_separation_s.
C5_DedupAsDescribed ==
    pc = "audio_done" =>
        /\ AcceptedTimes = DescribedWalk(CandidateTimes, 1, FALSE, 0, min_separation_s)
        /\ \A n \in 1..(Len(audio) - 1) :
              FSub(audio[n + 1].ts, audio[n].ts) >= min_separation_s

\* the same statement for separations up to MaxSep
C5_DedupOrdinarySeparation ==
    (pc = "audio_done" /\ min_separation_s <= MaxSep) =>
        /\ AcceptedTimes = DescribedWalk(CandidateTimes, 1, FALSE, 0, min_separation_s)
        /\ \A n \in 1..(Len(audio) - 1) :
              FSub(audio[n + 1].ts, audio[n].ts) >= min_separation_s

(***************************************************************************)
(* Motif search.                                                           *)
(***************************************************************************)
LexLess(u, v) ==
    \/ u[1] < v[1]
    \/ u[1] = v[1] /\ u[2] < v[2]
    \/ u[1] = v[1] /\ u[2] = v[2] /\ u[3] < v[3]

IndexTriples(n) == {t \in (1..n) \X (1..n) \X (1..n) : t[1] < t[2] /\ t[2] < t[3]}

\* the index triples of the sorted list ev that qualify for motif m
Qualifying(ev, m, gap) ==
    {t \in IndexTriples(Len(ev)) :
        /\ match(ev[t[1]].label, m[1])
        /\ match(ev[t[2]].label, m[2])
        /\ match(ev[t[3]].label, m[3])
        /\ FSub(ev[t[2]].ts, ev[t[1]].ts) <= gap
        /\ FSub(ev[t[3]].ts, ev[t[2]].ts) <= gap}

\* the set q of index triples, listed in lexicographic order
InLexOrder(q) ==
    [r \in 1..Cardinality(q) |->
        CHOOSE t \in q : Cardinality({u \in q : LexLess(u, t)}) = r - 1]

ExpectedHits(ev, m, gap) ==
    LET order == InLexOrder(Qualifying(ev, m, gap))
    IN  [r \in 1..Len(order) |->
            <<ev[order[r][1]], ev[order[r][2]], ev[order[r][3]]>>]

\* C1: find_motif returns exactly the triples (ev[i], ev[j], ev[k]) of the
\* timestamp-sorted list with i < j < k, the three labels matching the
\* three tokens and both consecutive gaps within gap_s, each once, in
\* lexicographic order of (i, j, k); the timeline 0.0 / 1.0 / 2.5 s of the
\* usage text gives one hit for a gap of 2.0 s and none for 1.0 s.
C1_MotifHitsExhaustiveInOrder ==
    pc = "motif_done" =>
        /\ hits = ExpectedHits(sorted_by_ts(events), motif, gap_s)
        /\ (events = ExampleEvents /\ motif = DefaultMotif /\ gap_s = 4) =>
              hits = <<<<ExampleEvents[1], ExampleEvents[2], ExampleEvents[3]>>>>
        /\ (events = ExampleEvents /\ motif = DefaultMotif /\ gap_s = 2) =>
              hits = <<>>

\* an unsorted input in which one anchor yields two hits, and the last
\* event of a hit lies further than gap_s from the anchor
C1_Witness ==
    /\ pc = "motif_done"
    /\ events # sorted_by_ts(events)
    /\ Len(hits) >= 2
    /\ hits[1][1] = hits[2][1]
    /\ \E h \in 1..Len(hits) : hits[h][3].ts - hits[h][1].ts > gap_s
    /\ Cardinality(IndexTriples(Len(events))) > Len(hits)

(***************************************************************************)
(* Triplet mining.                                                         *)
(***************************************************************************)
\* the index triples of the sorted list ev that lie within the window and
\* carry the labels trip
InWindow(ev, w, trip) ==
    {t \in IndexTriples(Len(ev)) :
        /\ FSub(ev[t[3]].ts, ev[t[1]].ts) <= w
        /\ <<ev[t[1]].label, ev[t[2]].label, ev[t[3]].label>> = trip}

LabelTriples(evs) ==
    LET ls == {evs[i].label : i \in 1..Len(evs)}
    IN  ls \X ls \X ls

\* counts.get(trip, 0)
CountsGet(counts, trip) ==
    IF \E n \in 1..Len(counts) : counts[n].trip = trip
    THEN counts[CHOOSE n \in 1..Len(counts) : counts[n].trip = trip].cnt
    ELSE 0

Reversed(trip) == <<trip[3], trip[2], trip[1]>>

\* C2: the counter of mine_top_triplets maps every ordered label triple to
\* the number of index triples i < j < k of the sorted list with
\* ev[k].ts - ev[i].ts <= window_s carrying these labels; the two breaks
\* drop none; the keys are order-sensitive.
C2_CountsAreWindowTriples ==
    pc = "mine_done" =>
        LET ev == sorted_by_ts(events)
            counts == mine_counts(events, window_s)
        IN  /\ \A trip \in LabelTriples(events) :
                  CountsGet(counts, trip) = Cardinality(InWindow(ev, window_s, trip))
            /\ \A n \in 1..Len(counts) :
                  /\ counts[n].cnt >= 1
                  /\ counts[n].trip \in LabelTriples(events)
                  /\ \A p \in 1..Len(counts) : counts[p].trip = counts[n].trip => p = n
            /\ \A n \in 1..Len(top) :
                  top[n].cnt = Cardinality(InWindow(ev, window_s, top[n].trip))

\* the k loop stopped at an event outside the window after counting one
\* inside it, and the j loop stopped at an event outside the window
C2_Witness ==
    /\ pc = "mine_done"
    /\ LET ev == sorted_by_ts(events)
       IN  /\ \E t \in IndexTriples(Len(ev)) :
                 /\ t[3] > t[2] + 1
                 /\ FSub(ev[t[3] - 1].ts, ev[t[1]].ts) <= window_s
                 /\ FSub(ev[t[3]].ts, ev[t[1]].ts) > window_s
           /\ \E i \in 1..Len(ev) : \E j \in (i + 1)..Len(ev) :
                 /\ FSub(ev[j - 1].ts, ev[i].ts) <= window_s
                 /\ FSub(ev[j].ts, ev[i].ts) > window_s
    /\ events # sorted_by_ts(events)
    /\ Len(top) >= 1

\* the first index triple, in scan order, that carries the labels trip
FirstSeen(ev, w, trip) ==
    CHOOSE t \in InWindow(ev, w, trip) :
        \A u \in InWindow(ev, w, trip) : u = t \/ LexLess(t, u)

\* a ranks before b: a higher count, or the same count and seen first
RanksBefore(a, b) ==
    \/ a.cnt > b.cnt
    \/ a.cnt = b.cnt /\ LexLess(a.first, b.first)

\* the distinct triples with their count and first occurrence, ranked
Ranking(evs, w) ==
    LET ev == sorted_by_ts(evs)
        seen == {trip \in LabelTriples(evs) : InWindow(ev, w, trip) # {}}
        tally == {[trip |-> trip,
                   cnt |-> Cardinality(InWindow(ev, w, trip)),
                   first |-> FirstSeen(ev, w, trip)] : trip \in seen}
    IN  [r \in 1..Cardinality(tally) |->
            LET e == CHOOSE e \in tally :
                         Cardinality({o \in tally : RanksBefore(o, e)}) = r - 1
            IN  [trip |-> e.trip, cnt |-> e.cnt]]

IsPrefix(s, t) == Len(s) <= Len(t) /\ s = SubSeq(t, 1, Len(s))

\* C4: mine_top_triplets(top_k) is the first top_k entries of one ranking
\* of the distinct label triples, descending by count, equal counts in
\* order of first encounter; so the result for k1 <= k2 is a prefix of the
\* result for k2, and the result has min(top_k, distinct triples) entries.
C4_TopIsPrefixOfRanking ==
    pc = "mine_done" =>
        LET ranking == Ranking(events, window_s)
        IN  /\ IsPrefix(top, ranking)
            /\ Len(top) = (IF top_k < Len(ranking) THEN top_k ELSE Len(ranking))
            /\ \A k1 \in 0..top_k :
                  IsPrefix(mine_top_triplets(events, window_s, k1), top)

\* the result was cut short of the distinct triples, its first entry was
\* not the first triple met by the scan, and the cut fell between two
\* triples of equal count
C4_Witness ==
    /\ pc = "mine_done"
    /\ LET counts == mine_counts(events, window_s)
       IN  /\ Len(top) >= 2
           /\ Len(top) < Len(counts)
           /\ top[1].cnt > top[2].cnt
           /\ top[1] # counts[1]
           /\ \E n \in 1..Len(counts) :
                 /\ counts[n].trip # top[Len(top)].trip
                 /\ counts[n].cnt = top[Len(top)].cnt
                 /\ \A r \in 1..Len(top) : top[r] # counts[n]

(***************************************************************************)
(* Alignment, fusion and the pipeline of main.                             *)
(***************************************************************************)
AfterAlign == pc \in {"fuse", "write", "motif", "mine", "finish", "done"}
AfterFuse == pc \in {"write", "motif", "mine", "finish", "done"}
AfterWrite == pc \in {"motif", "mine", "finish", "done"}
AfterMotif == pc \in {"mine", "finish", "done"}
AfterMine == pc \in {"finish", "done"}

Estimating == args.audio_offset = None

\* out holds one event per event of a, in order, same source, label and
\* meta, each timestamp the float sum of the original and the one offset
\* min(w) - min(a)
ShiftedByOffset(a, w, out) ==
    /\ Len(out) = Len(a)
    /\ \A i \in 1..Len(a) :
          /\ out[i].source = a[i].source
          /\ out[i].label = a[i].label
          /\ out[i].meta = a[i].meta
          /\ out[i].ts = FAdd(a[i].ts, FSub(MinTs(w), MinTs(a)))

\* the shift is exact: differences between events are kept and the
\* earliest event of out falls on the earliest event of w
ExactShift(a, w, out) ==
    /\ \A i, j \in 1..Len(a) : out[i].ts - out[j].ts = a[i].ts - a[j].ts
    /\ MinTs(out) = MinTs(w)

\* the shift keeps the order of the events in time
OrderKept(a, out) ==
    \A i, j \in 1..Len(a) : a[i].ts <= a[j].ts => out[i].ts <= out[j].ts

\* C6 as stated: with an empty stream the acoustic events come back
\* unchanged; otherwise every acoustic event is re-timed by the one offset
\* min(wifi) - min(audio), so that all pairwise differences are preserved
\* and the earliest aligned acoustic timestamp equals the earliest wireless
\* one; the input events are not changed.
C6_AlignExactShift ==
    [][(pc = "align" /\ Estimating) =>
          /\ audio' = audio
          /\ wifi' = wifi
          /\ IF audio = <<>> \/ wifi = <<>> THEN aligned_audio' = audio
             ELSE /\ ShiftedByOffset(audio, wifi, aligned_audio')
                  /\ ExactShift(audio, wifi, aligned_audio')]_vars

\* C6, amended: with an empty stream the acoustic events come back
\* unchanged; otherwise every acoustic event is re-timed, in a new event
\* with the same source and label, to the float sum of its timestamp and
\* the one offset min(wifi) - min(audio) (itself a rounded float), which
\* keeps the events in the same order in time; the input events are not
\* changed.
C6_AlignShiftsByRoundedOffset ==
    [][(pc = "align" /\ Estimating) =>
          /\ audio' = audio
          /\ wifi' = wifi
          /\ IF audio = <<>> \/ wifi = <<>> THEN aligned_audio' = audio
             ELSE /\ ShiftedByOffset(audio, wifi, aligned_audio')
                  /\ OrderKept(audio, aligned_audio')]_vars

\* an acoustic event was aligned by a non-zero offset to wifi rows whose
\* earliest is not the first
C6_Witness ==
    /\ AfterAlign
    /\ Estimating
    /\ Len(audio) >= 1
    /\ Len(wifi) >= 2
    /\ wifi[1].ts > wifi[2].ts
    /\ aligned_audio[1].ts # audio[1].ts
    /\ aligned_audio[1].ts = wifi[2].ts

\* s is the stable sort by timestamp of c: a rearrangement of c with
\* non-decreasing timestamps in which events of equal timestamp keep the
\* order they have in c
IsStableSortOf(s, c) ==
    /\ Len(s) = Len(c)
    /\ \E pi \in [1..Len(c) -> 1..Len(c)] :
          /\ \A p, q \in 1..Len(c) : pi[p] = pi[q] => p = q
          /\ \A p \in 1..Len(c) : s[p] = c[pi[p]]
          /\ \A p, q \in 1..Len(c) :
                p < q => /\ s[p].ts <= s[q].ts
                         /\ s[p].ts = s[q].ts => pi[p] < pi[q]

\* C8: the fused timeline is a permutation of wifi + aligned audio with
\* non-decreasing timestamps; events of equal timestamp keep their original
\* relative order: the input order within a stream, wifi before audio
\* across the streams.
C8_FusedIsStableSort ==
    AfterFuse =>
        /\ IsStableSortOf(all_events, wifi \o aligned_audio)
        /\ \A p, q \in 1..Len(all_events) :
              (p < q /\ all_events[p].ts = all_events[q].ts) =>
                  ~(all_events[p].source = "audio" /\ all_events[q].source = "wifi")

\* the sort moved events, and left a wifi event directly before an
\* acoustic event of the same timestamp and two wifi rows of one timestamp
\* in file order
C8_Witness ==
    /\ AfterFuse
    /\ all_events # wifi \o aligned_audio
    /\ \E p \in 1..(Len(all_events) - 1) :
          /\ all_events[p].source = "wifi"
          /\ all_events[p + 1].source = "audio"
          /\ all_events[p].ts = all_events[p + 1].ts

CallCount(name) == Cardinality({i \in 1..Len(calls) : calls[i] = name})

Printed(msg) == \E i \in 1..Len(stdout) : stdout[i] = msg

\* the step of main that follows step p
StepAfter(p) ==
    CASE p = "align" -> "fuse"
      [] p = "fuse" -> "write"
      [] p = "write" -> "motif"
      [] p = "motif" -> "mine"
      [] p = "mine" -> "finish"
      [] p = "finish" -> "done"
      [] OTHER -> "none"

\* what the run has done so far, by the step it has reached
RunShape ==
    LET tokens == motif_tokens(args.motif)
    IN  /\ CallCount("find_motif") >= 1 =>
              Len(tokens) = 3 /\ Printed("Saved fused timeline")
        /\ AfterWrite => out_file = TimelineRows(all_events)
        /\ AfterMotif =>
              IF Len(tokens) = 3
              THEN /\ CallCount("find_motif") = 1
                   /\ hits = find_motif(all_events, tokens, args.gap)
              ELSE /\ CallCount("find_motif") = 0
                   /\ Printed("Motif must be 3 tokens. Skipping.")
        /\ AfterMine =>
              IF args.mine_top > 0
              THEN /\ CallCount("mine_top_triplets") = 1
                   /\ top = mine_top_triplets(all_events, MainWindow, args.mine_top)
              ELSE CallCount("mine_top_triplets") = 0
        /\ pc = "done" => stdout[Len(stdout)] = "Done."
        /\ pc # "done" => StepAfter(pc) # "none"

\* C9: a motif argument without exactly 3 tokens is reported, find_motif is
\* never invoked, and the rest still runs: the timeline is written before
\* the motif check, the miner runs whenever mine_top > 0, and the run
\* reaches Done (every step, the motif step included, hands over to the
\* next one up to Done); with exactly 3 tokens find_motif runs exactly
\* once, after the timeline has been written.
C9_MalformedMotifSkipsOnlyTheSearch == []RunShape /\ [][pc' = StepAfter(pc)]_vars

\* a run with a two-token motif reached Done having mined triplets
C9_Witness ==
    /\ pc = "done"
    /\ Len(motif_tokens(args.motif)) = 2
    /\ args.mine_top > 0
    /\ Len(top) >= 1
    /\ Len(out_file) = 1 + Len(wifi) + Len(audio)

\* the timestamp the earliest acoustic event is aligned to
AlignedStart == FAdd(MinTs(audio), EstimatedOffset(audio, wifi))

\* C10 as stated: without an explicit offset and with both streams
\* non-empty, no acoustic event lies before the earliest wifi timestamp and
\* the fused timeline starts with a wifi event; no motif hit holds an
\* acoustic event that precedes every wifi event.
C10_AudioNeverBeforeWifi ==
    (AfterFuse /\ Estimating /\ audio # <<>> /\ wifi # <<>>) =>
        /\ \A i \in 1..Len(aligned_audio) : aligned_audio[i].ts >= MinTs(wifi)
        /\ all_events[1].source = "wifi"
        /\ (AfterMotif /\ CallCount("find_motif") = 1) =>
              \A h \in 1..Len(hits) : \A c \in 1..3 :
                  hits[h][c].source = "audio" => hits[h][c].ts >= MinTs(wifi)

\* C10, amended: without an explicit offset and with both streams
\* non-empty, no acoustic event lies before the float value of
\* min(audio) + (min(wifi) - min(audio)), which rounding can leave below
\* or above the earliest wifi timestamp; the fused timeline starts with a
\* wifi event exactly when that value is not below the earliest wifi
\* timestamp, and then no motif hit holds an acoustic event that precedes
\* every wifi event.
C10_AudioNeverBeforeAlignedStart ==
    (AfterFuse /\ Estimating /\ audio # <<>> /\ wifi # <<>>) =>
        /\ \A i \in 1..Len(aligned_audio) : aligned_audio[i].ts >= AlignedStart
        /\ all_events[1].source = "wifi" <=> AlignedStart >= MinTs(wifi)
        /\ (AfterMotif /\ CallCount("find_motif") = 1 /\ AlignedStart >= MinTs(wifi)) =>
              \A h \in 1..Len(hits) : \A c \in 1..3 :
                  hits[h][c].source = "audio" => hits[h][c].ts >= MinTs(wifi)

\* the earliest acoustic event was aligned onto the earliest wifi event
\* and the fused timeline holds the wifi event first; a motif was found
C10_Witness ==
    /\ pc = "done"
    /\ Estimating
    /\ audio # <<>>
    /\ wifi # <<>>
    /\ AlignedStart = MinTs(wifi)
    /\ audio[1].ts # aligned_audio[1].ts
    /\ all_events[1].source = "wifi"
    /\ all_events[2].source = "audio"
    /\ all_events[2].ts = all_events[1].ts
    /\ CallCount("find_motif") = 1
    /\ Len(hits) >= 1

=============================================================================
